---- MODULE Spec2Model ----
(***************************************************************************)
(* Model of the eco application's session core.                            *)
(*                                                                         *)
(*  - the client session store of vitereact/src/store/main.tsx (a zustand  *)
(*    store wrapped in the persist middleware): its auth_state slice, the  *)
(*    login / logout / check_auth / clear_error actions and the snapshot   *)
(*    partialize writes to durable storage;                                *)
(*  - the backend's bearer-token guard in front of POST /api/challenges,   *)
(*    whose implementation (backend/server.ts) is only known through its   *)
(*    test file and the specification.                                     *)
(*                                                                         *)
(* JavaScript values are tagged tuples, so that null, undefined, strings   *)
(* and objects stay distinct and comparable.                               *)
(***************************************************************************)
EXTENDS Integers, Sequences, FiniteSets, TLC

\* ---------------------------------------------------------------- bounds
\* number of distinct users the backend can answer with
NumUsers == 2
\* number of distinct session tokens the backend can answer with
NumTokens == 2
\* number of login / check_auth calls that can be pending at the same time
MaxCalls == 2

\* ------------------------------------------------------ JavaScript values
NULL == <<"null">>
UNDEFINED == <<"undefined">>
Str(s) == <<"string", s>>
UserObj(i) == <<"user", i>>
TokenStr(i) == <<"token", i>>

Users == {UserObj(i) : i \in 1..NumUsers}
Tokens == {TokenStr(i) : i \in 1..NumTokens}

\* v == null || v === undefined
IsNullish(v) == v[1] \in {"null", "undefined"}
\* !v : null, undefined and the empty string are falsy
Falsy(v) == IsNullish(v) \/ (v[1] = "string" /\ v[2] = "")
\* a || b
OrElse(a, b) == IF Falsy(a) THEN b ELSE a
\* obj.key, undefined when the object has no such property
Get(obj, key) == IF key \in DOMAIN obj THEN obj[key] ELSE UNDEFINED

VARIABLES
  auth_state,   \* the store's auth_state slice
  storage,      \* the 'eco-app-storage' item: <<>> when absent, else <<snapshot>>
  calls,        \* the pending login / check_auth calls, one slot per call
  startup_checked, \* a check_auth call has completed since the store was created
  last,         \* the step of the store that ran last, with what it returned
  called,       \* login, logout or check_auth has been called on this store
  app,          \* the App component: not mounted, mounted, or crashed
  users,        \* backend: the rows of the users table
  sessions,     \* backend: the session tokens issued so far, with user and expiry
  now,          \* backend: the clock
  challenges,   \* backend: the rows of the challenges table
  http,         \* backend: the request handled last, with its response
  registrations, \* backend: the register requests being handled, one slot each
  connections,  \* broker: every connection's socket and registry entry
  inboxes,      \* broker: the frames each connection's client has received
  published,    \* broker: the notifications published, in publish order
  broker_last   \* broker: the event handled last, with what the caller got

cvars == <<auth_state, storage, calls, startup_checked, last, called, app>>
bvars == <<connections, inboxes, published, broker_last>>
svars == <<users, sessions, now, challenges, http, registrations, bvars>>
vars == <<auth_state, storage, calls, startup_checked, last, called, app,
          users, sessions, now, challenges, http, registrations,
          connections, inboxes, published, broker_last>>

Slots == 1..MaxCalls

\* ------------------------------------------------------------ the store
\* main.tsx 63-71
initial_auth_state ==
  [current_user |-> NULL,
   auth_token |-> NULL,
   authentication_status |-> [is_authenticated |-> FALSE, is_loading |-> TRUE],
   error_message |-> NULL]

\* partialize taking is_loading from the state
partialize_keeps_loading(state) ==
  [current_user |-> state.current_user,
   auth_token |-> state.auth_token,
   authentication_status |-> state.authentication_status,
   error_message |-> NULL]

\* main.tsx 222-232
partialize(state) ==
  [current_user |-> state.current_user,
   auth_token |-> state.auth_token,
   authentication_status |->
     [is_authenticated |-> state.authentication_status.is_authenticated,
      is_loading |-> FALSE],
   error_message |-> NULL]

\* JSON.stringify of the snapshot: properties whose value is undefined are dropped
Stringify(snapshot) ==
  [k \in {f \in DOMAIN snapshot :
            f = "authentication_status" \/ snapshot[f][1] # "undefined"}
     |-> snapshot[k]]

\* the auth_state the persist middleware puts in place of the initial one when
\* the stored item is merged in: a property missing from the item reads undefined
Rehydrated(item) ==
  [k \in DOMAIN initial_auth_state |-> Get(item, k)]

\* set(...) of the persisted store: the new state, then the snapshot is written
Set(new) ==
  /\ auth_state' = new
  /\ storage' = <<Stringify(partialize(new))>>

\* a slot with no call; of a pending call it holds the token check_auth read,
\* the requests sent, whether another call was pending at the same time
\* (overlapped) and whether logout ran since the call started (stale)
idle == [pc |-> "idle", token |-> NULL, requests |-> 0,
         overlapped |-> FALSE, stale |-> FALSE]

NoResult ==
  [op |-> "none", call |-> 0, body |-> <<>>, token |-> NULL,
   thrown |-> NULL, requests |-> 0, overlapped |-> FALSE, stale |-> FALSE]

\* the slots once call c has started: the calls pending with it overlap it
Started(c, pc, token) ==
  [d \in Slots |->
     IF d = c
     THEN [pc |-> pc, token |-> token, requests |-> 1,
           overlapped |-> \E e \in Slots \ {c} : calls[e].pc # "idle",
           stale |-> FALSE]
     ELSE IF calls[d].pc # "idle" THEN [calls[d] EXCEPT !.overlapped = TRUE]
     ELSE calls[d]]

\* what a completing call hands over to last
Completed(c, op) ==
  [NoResult EXCEPT !.op = op, !.call = c,
                   !.requests = calls[c].requests,
                   !.overlapped = calls[c].overlapped,
                   !.stale = calls[c].stale]

\* ------------------------------------------------------------- responses
\* 200 body of the login endpoint as the backend documents and tests it
ServerLoginBody(i, t) == [user_id |-> <<"number", i>>, auth_token |-> TokenStr(t)]
\* 200 body of the login endpoint with the properties the store reads
ClientLoginBody(i, t) == [user |-> UserObj(i), token |-> TokenStr(t)]

LoginBodies ==
  {ServerLoginBody(i, t) : i \in 1..NumUsers, t \in 1..NumTokens}
    \cup {ClientLoginBody(i, t) : i \in 1..NumUsers, t \in 1..NumTokens}

\* 200 body of GET /api/auth/verify
VerifyBodies == {[user |-> UserObj(i)] : i \in 1..NumUsers}

\* a failed request: error.response?.data?.message and error.message
Errors ==
  {[response_message |-> r, message |-> m] :
     r \in {UNDEFINED, Str("Invalid credentials")},
     m \in {Str(""), Str("Network Error")}}

\* main.tsx 113
ErrorMessageOf(error) ==
  OrElse(OrElse(error.response_message, error.message), Str("Login failed"))

\* the App component before it is mounted
unmounted == [pc |-> "unmounted", error |-> NULL]

\* ---------------------------------------------------------------- login
\* main.tsx 81-90
login_loading(state) ==
  [state EXCEPT !.authentication_status.is_loading = TRUE,
                !.error_message = NULL]

\* the success branch of login keeping an authenticated store as it is
login_success_unless_authenticated(state, body) ==
  IF state.authentication_status.is_authenticated
  THEN [state EXCEPT !.authentication_status.is_loading = FALSE]
  ELSE [current_user |-> Get(body, "user"),
        auth_token |-> Get(body, "token"),
        authentication_status |-> [is_authenticated |-> TRUE, is_loading |-> FALSE],
        error_message |-> NULL]

\* the success branch of login leaving is_loading as it is
login_success_keeps_loading(state, body) ==
  [current_user |-> Get(body, "user"),
   auth_token |-> Get(body, "token"),
   authentication_status |->
     [is_authenticated |-> TRUE,
      is_loading |-> state.authentication_status.is_loading],
   error_message |-> NULL]

\* main.tsx 99-111
login_success(state, body) ==
  [current_user |-> Get(body, "user"),
   auth_token |-> Get(body, "token"),
   authentication_status |-> [is_authenticated |-> TRUE, is_loading |-> FALSE],
   error_message |-> NULL]

\* the catch branch of login without its error_message
login_failure_without_message(state, errorMessage) ==
  [state EXCEPT !.authentication_status =
                   [is_authenticated |-> FALSE, is_loading |-> FALSE]]

\* the catch branch of login leaving is_loading as it is
login_failure_keeps_loading(state, errorMessage) ==
  [state EXCEPT !.authentication_status.is_authenticated = FALSE,
                !.error_message = errorMessage]

\* main.tsx 115-124
login_failure(state, errorMessage) ==
  [state EXCEPT !.authentication_status =
                   [is_authenticated |-> FALSE, is_loading |-> FALSE],
                !.error_message = errorMessage]

\* login(email, password) up to the await: main.tsx 80-97
login_begin(c) ==
  /\ calls[c].pc = "idle"
  /\ Set(login_loading(auth_state))
  /\ calls' = Started(c, "login", NULL)
  /\ last' = [NoResult EXCEPT !.op = "login_begin", !.call = c]
  /\ called' = TRUE
  /\ UNCHANGED <<startup_checked, app>>
  /\ UNCHANGED svars

\* the login request answered 200: main.tsx 99-111
login_resolve(c) ==
  /\ calls[c].pc = "login"
  /\ \E body \in LoginBodies :
       /\ Set(login_success(auth_state, body))
       /\ last' = [Completed(c, "login_resolve") EXCEPT !.body = body]
  /\ calls' = [calls EXCEPT ![c] = idle]
  /\ UNCHANGED <<startup_checked, called, app>>
  /\ UNCHANGED svars

\* the login request failed: main.tsx 112-126
login_reject(c) ==
  /\ calls[c].pc = "login"
  /\ \E error \in Errors :
       /\ Set(login_failure(auth_state, ErrorMessageOf(error)))
       /\ last' = [Completed(c, "login_reject") EXCEPT
                     !.thrown = ErrorMessageOf(error)]
  /\ calls' = [calls EXCEPT ![c] = idle]
  /\ UNCHANGED <<startup_checked, called, app>>
  /\ UNCHANGED svars

\* logout keeping the rest of the state
logged_out_keeps_loading ==
  [auth_state EXCEPT !.current_user = NULL,
                     !.auth_token = NULL,
                     !.authentication_status.is_authenticated = FALSE,
                     !.error_message = NULL]

\* --------------------------------------------------------------- logout
\* main.tsx 130-140
logged_out ==
  [current_user |-> NULL,
   auth_token |-> NULL,
   authentication_status |-> [is_authenticated |-> FALSE, is_loading |-> FALSE],
   error_message |-> NULL]

\* main.tsx 129-141
logout ==
  /\ Set(logged_out)
  /\ last' = [NoResult EXCEPT !.op = "logout"]
  /\ calls' = [c \in Slots |->
                IF calls[c].pc # "idle" THEN [calls[c] EXCEPT !.stale = TRUE]
                ELSE calls[c]]
  /\ called' = TRUE
  /\ UNCHANGED <<startup_checked, app>>
  /\ UNCHANGED svars

\* the no-token branch of check_auth leaving is_loading as it is
check_auth_no_token_keeps_loading(state) ==
  [state EXCEPT !.authentication_status.is_authenticated = FALSE]

\* ----------------------------------------------------------- check_auth
\* main.tsx 148-156
check_auth_no_token(state) ==
  [state EXCEPT !.authentication_status =
                   [is_authenticated |-> FALSE, is_loading |-> FALSE]]

\* main.tsx 166-178
check_auth_success(token, body) ==
  [current_user |-> Get(body, "user"),
   auth_token |-> token,
   authentication_status |-> [is_authenticated |-> TRUE, is_loading |-> FALSE],
   error_message |-> NULL]

\* the catch branch of check_auth keeping the stale token
check_auth_failure_keeps_token ==
  [auth_state EXCEPT !.authentication_status =
                        [is_authenticated |-> FALSE, is_loading |-> FALSE],
                     !.error_message = NULL]

\* main.tsx 180-190
check_auth_failure ==
  [current_user |-> NULL,
   auth_token |-> NULL,
   authentication_status |-> [is_authenticated |-> FALSE, is_loading |-> FALSE],
   error_message |-> NULL]

\* check_auth() with no token in the store: main.tsx 143-158
check_auth_return ==
  /\ Falsy(auth_state.auth_token)
  /\ Set(check_auth_no_token(auth_state))
  /\ startup_checked' = TRUE
  /\ last' = [NoResult EXCEPT !.op = "check_auth_return",
                              !.token = auth_state.auth_token]
  /\ called' = TRUE
  /\ UNCHANGED <<calls, app>>
  /\ UNCHANGED svars

\* check_auth() with a token, up to the await: main.tsx 143-164
check_auth_begin(c) ==
  /\ calls[c].pc = "idle"
  /\ ~Falsy(auth_state.auth_token)
  /\ calls' = Started(c, "check_auth", auth_state.auth_token)
  /\ last' = [NoResult EXCEPT !.op = "check_auth_begin", !.call = c,
                              !.token = auth_state.auth_token]
  /\ called' = TRUE
  /\ UNCHANGED <<auth_state, storage, startup_checked, app>>
  /\ UNCHANGED svars

\* the verify request answered 200: main.tsx 166-178
check_auth_resolve(c) ==
  /\ calls[c].pc = "check_auth"
  /\ \E body \in VerifyBodies :
       /\ Set(check_auth_success(calls[c].token, body))
       /\ last' = [Completed(c, "check_auth_resolve") EXCEPT
                     !.body = body, !.token = calls[c].token]
  /\ calls' = [calls EXCEPT ![c] = idle]
  /\ startup_checked' = TRUE
  /\ UNCHANGED <<called, app>>
  /\ UNCHANGED svars

\* the verify request failed: main.tsx 179-191
check_auth_reject(c) ==
  /\ calls[c].pc = "check_auth"
  /\ Set(check_auth_failure)
  /\ last' = [Completed(c, "check_auth_reject") EXCEPT
                !.token = calls[c].token]
  /\ calls' = [calls EXCEPT ![c] = idle]
  /\ startup_checked' = TRUE
  /\ UNCHANGED <<called, app>>
  /\ UNCHANGED svars

\* ---------------------------------------------------------- clear_error
\* main.tsx 194-201
clear_error ==
  /\ Set([auth_state EXCEPT !.error_message = NULL])
  /\ last' = [NoResult EXCEPT !.op = "clear_error"]
  /\ UNCHANGED <<calls, startup_checked, called, app>>
  /\ UNCHANGED svars

\* ------------------------------------------------------------- restart
\* the page is closed (pending calls die with it) and the store is created
\* again: main.tsx 59-71 with the persist options of 220-233
restart ==
  /\ auth_state' = IF storage = <<>> THEN initial_auth_state
                   ELSE Rehydrated(storage[1])
  /\ calls' = [c \in Slots |-> idle]
  /\ startup_checked' = FALSE
  /\ last' = [NoResult EXCEPT !.op = "restart"]
  /\ called' = FALSE
  /\ app' = unmounted
  /\ UNCHANGED storage
  /\ UNCHANGED svars

\* ------------------------------------------------------------- the App
\* the properties of the store's state object: main.tsx 38-53
StoreProperties ==
  {"auth_state", "featured_initiatives", "user_impact", "notification_count",
   "environment_settings", "login", "logout", "check_auth", "clear_error",
   "set_featured_initiatives", "set_user_impact", "set_notification_count",
   "update_environment_settings"}

\* useAppStore(state => state[key]) for an action of the store
StoreAction(key) ==
  IF key \in StoreProperties THEN <<"function", key>> ELSE UNDEFINED

\* ProtectedRoute: part_000 28-41, what it renders for the store's state
ProtectedRoute ==
  LET isAuthenticated == Get(auth_state, "is_authenticated")
      isLoading == Get(auth_state, "is_loading")
  IN IF ~Falsy(isLoading) THEN "LoadingSpinner"
     ELSE IF Falsy(isAuthenticated) THEN "Navigate to /login"
     ELSE "children"

\* App is mounted and its effect runs checkAuth(): part_000 44-51. Calling
\* what is not a function throws, and the error of an effect unmounts the tree.
App_mount ==
  /\ app.pc = "unmounted"
  /\ LET checkAuth == StoreAction("checkAuth") IN
     IF checkAuth[1] = "function"
     THEN /\ app' = [pc |-> "mounted", error |-> NULL]
          /\ called' = TRUE
          /\ IF Falsy(auth_state.auth_token)
             THEN /\ Set(check_auth_no_token(auth_state))
                  /\ startup_checked' = TRUE
                  /\ last' = [NoResult EXCEPT !.op = "check_auth_return",
                                              !.token = auth_state.auth_token]
                  /\ UNCHANGED calls
             ELSE /\ \E c \in Slots : calls[c].pc = "idle"
                  /\ LET c == CHOOSE c \in Slots : calls[c].pc = "idle" IN
                     /\ calls' = Started(c, "check_auth", auth_state.auth_token)
                     /\ last' = [NoResult EXCEPT !.op = "check_auth_begin",
                                                 !.call = c,
                                                 !.token = auth_state.auth_token]
                  /\ UNCHANGED <<auth_state, storage, startup_checked>>
     ELSE /\ app' = [pc |-> "crashed",
                     error |-> Str("TypeError: checkAuth is not a function")]
          /\ UNCHANGED <<auth_state, storage, calls, startup_checked, last,
                         called>>
  /\ UNCHANGED svars

\* ============================================================ backend
\* The request handlers of backend/server.ts, which the repository's sources do
\* not contain: they follow the specification (sections 4.1, 4.2, 6 and 7) and
\* the requests and answers of backend/server.test.ts.

\* number of distinct e-mail addresses
NumEmails == 2
\* the clock stops at MaxTime
MaxTime == 2
\* a session token expires TokenTTL ticks after it was issued
TokenTTL == 1
\* number of rows the challenges table can take
MaxChallenges == 1

Emails == {<<"email", i>> : i \in 1..NumEmails}
Passwords == {Str("password123"), Str("wrongpassword")}

Bearer(token) == <<"bearer", token>>
\* the Authorization header of a request: absent, not a bearer header, or a
\* bearer token (TokenStr(0) is a token the backend never issued)
Authorizations ==
  {UNDEFINED, Str("garbage")} \cup {Bearer(TokenStr(i)) : i \in 0..NumTokens}

NoExchange ==
  [route |-> "none", authorization |-> UNDEFINED, credentials |-> <<>>,
   status |-> 0, body |-> <<>>, rows_before |-> 0]

\* the users row with this e-mail address, as a set of row numbers
RowsOf(email) == {i \in 1..Len(users) : users[i].email = email}

\* createTestUser and the admin fixture of the tests: a row put in the users
\* table directly; the table keeps e-mail addresses unique
insert_user(email, password, is_admin) ==
  /\ Len(users) < NumUsers
  /\ RowsOf(email) = {}
  /\ users' = Append(users, [id |-> Len(users) + 1, email |-> email,
                             password |-> password, is_admin |-> is_admin])
  /\ http' = NoExchange
  /\ UNCHANGED <<sessions, now, challenges>>
  /\ UNCHANGED <<cvars, registrations, bvars>>

\* the session token issued next
FreshToken == TokenStr(Cardinality(sessions) + 1)

\* a login that tells an unknown e-mail address from a wrong password
AuthService_login_tells_unknown(email, password) ==
  IF RowsOf(email) = {}
  THEN [status |-> 404, body |-> [message |-> Str("UserNotFound")], issued |-> {}]
  ELSE IF \E i \in RowsOf(email) : users[i].password = password
  THEN LET i == CHOOSE i \in RowsOf(email) : users[i].password = password
       IN [status |-> 200,
           body |-> [user_id |-> <<"number", i>>, auth_token |-> FreshToken],
           issued |-> {[token |-> FreshToken, user_id |-> i,
                        expires_at |-> now + TokenTTL]}]
  ELSE [status |-> 401, body |-> [message |-> Str("InvalidCredentials")],
        issued |-> {}]

\* AuthService.login: InvalidCredentials for an unknown e-mail address and for
\* a wrong password alike, otherwise a fresh token
AuthService_login(email, password) ==
  IF \E i \in RowsOf(email) : users[i].password = password
  THEN LET i == CHOOSE i \in RowsOf(email) : users[i].password = password
       IN [status |-> 200,
           body |-> [user_id |-> <<"number", i>>, auth_token |-> FreshToken],
           issued |-> {[token |-> FreshToken, user_id |-> i,
                        expires_at |-> now + TokenTTL]}]
  ELSE [status |-> 401, body |-> [message |-> Str("InvalidCredentials")],
        issued |-> {}]

\* POST /api/users/login
api_login(email, password) ==
  LET r == AuthService_login(email, password) IN
  /\ Cardinality(sessions) + Cardinality(r.issued) <= NumTokens
  /\ sessions' = sessions \cup r.issued
  /\ http' = [NoExchange EXCEPT !.route = "POST /api/users/login",
                                !.credentials = <<email, password>>,
                                !.status = r.status, !.body = r.body,
                                !.rows_before = Len(challenges)]
  /\ UNCHANGED <<users, now, challenges>>
  /\ UNCHANGED <<cvars, registrations, bvars>>

\* AuthService.verify: the user a live token is bound to, as a set of users
\* rows (empty: Unauthenticated)
AuthService_verify(token) ==
  {users[s.user_id] : s \in {x \in sessions : x.token = token /\ now < x.expires_at}}

\* the bearer token of an Authorization header, undefined without one
BearerToken(authorization) ==
  IF authorization[1] = "bearer" THEN authorization[2] ELSE UNDEFINED

\* a guard that lets every verified user through
AuthorizationGuard_without_role(authorization, admin_only) ==
  IF AuthService_verify(BearerToken(authorization)) = {} THEN 401 ELSE 0

\* AuthorizationGuard: 401 unless the token verifies, 403 for a user that is
\* not an administrator on an administrators' route, otherwise 0 (go on)
AuthorizationGuard(authorization, admin_only) ==
  LET verified == AuthService_verify(BearerToken(authorization)) IN
  IF verified = {} THEN 401
  ELSE IF admin_only /\ \E u \in verified : ~u.is_admin THEN 403
  ELSE 0

\* POST /api/challenges
api_create_challenge(authorization) ==
  LET refused == AuthorizationGuard(authorization, TRUE) IN
  /\ refused = 0 => Len(challenges) < MaxChallenges
  /\ IF refused = 0
     THEN /\ challenges' = Append(challenges, [id |-> Len(challenges) + 1])
          /\ http' = [NoExchange EXCEPT !.route = "POST /api/challenges",
                                        !.authorization = authorization,
                                        !.status = 201,
                                        !.body = [id |-> Len(challenges) + 1],
                                        !.rows_before = Len(challenges)]
     ELSE /\ challenges' = challenges
          /\ http' = [NoExchange EXCEPT !.route = "POST /api/challenges",
                                        !.authorization = authorization,
                                        !.status = refused,
                                        !.rows_before = Len(challenges)]
  /\ UNCHANGED <<users, sessions, now>>
  /\ UNCHANGED <<cvars, registrations, bvars>>

\* time passes
tick ==
  /\ now < MaxTime
  /\ now' = now + 1
  /\ http' = NoExchange
  /\ UNCHANGED <<users, sessions, challenges>>
  /\ UNCHANGED <<cvars, registrations, bvars>>

\* -------------------------------------------------------------- register
\* number of register requests
MaxRegisters == 2

Registers == 1..MaxRegisters

\* a register request not made yet
unregistered == [pc |-> "idle", email |-> NULL, status |-> 0]

\* an insert that trusts the check made before it
CredentialStore_insert_unchecked(email, password) ==
  [ok |-> TRUE,
   rows |-> Append(users, [id |-> Len(users) + 1, email |-> email,
                           password |-> password, is_admin |-> FALSE])]

\* Credential Store: the insert of a users row, refused when the e-mail
\* address is taken at the time of the insert
CredentialStore_insert(email, password) ==
  IF RowsOf(email) # {}
  THEN [ok |-> FALSE, rows |-> users]
  ELSE [ok |-> TRUE,
        rows |-> Append(users, [id |-> Len(users) + 1, email |-> email,
                                password |-> password, is_admin |-> FALSE])]

\* POST /api/users/register, first step: the uniqueness check, which answers
\* 400 DuplicateEmail when the e-mail address is already taken
register_check(r, email) ==
  /\ registrations[r].pc = "idle"
  /\ registrations' =
       [registrations EXCEPT ![r] =
          IF RowsOf(email) # {}
          THEN [pc |-> "done", email |-> email, status |-> 400]
          ELSE [pc |-> "insert", email |-> email, status |-> 0]]
  /\ UNCHANGED <<users, sessions, now, challenges, http>>
  /\ UNCHANGED <<cvars, bvars>>

\* POST /api/users/register, second step: the insert, a token and 201, or
\* 400 DuplicateEmail when the store refuses the row
register_insert(r) ==
  /\ registrations[r].pc = "insert"
  /\ LET stored == CredentialStore_insert(registrations[r].email,
                                          Str("password123")) IN
     IF stored.ok
     THEN /\ Len(users) < NumUsers
          /\ Cardinality(sessions) < NumTokens
          /\ users' = stored.rows
          /\ sessions' = sessions \cup
               {[token |-> FreshToken, user_id |-> Len(stored.rows),
                 expires_at |-> now + TokenTTL]}
          /\ registrations' = [registrations EXCEPT ![r].pc = "done",
                                                    ![r].status = 201]
     ELSE /\ registrations' = [registrations EXCEPT ![r].pc = "done",
                                                    ![r].status = 400]
          /\ UNCHANGED <<users, sessions>>
  /\ UNCHANGED <<now, challenges, http>>
  /\ UNCHANGED <<cvars, bvars>>

\* --------------------------------------------------- NotificationBroker
\* number of socket connections ever opened
NumConns == 2
\* number of notifications published
MaxNotifications == 2

Conns == 1..NumConns
Messages == {Str("Test notification"), Str("Second notification")}
\* the users a connection can identify itself as
BrokerUsers == {1, 2}
\* the user_id of a posted notification, as a set (empty: a broadcast); the
\* test posts {user_id: 1, message}
Targets == {{1}}

\* a connection before its socket is opened. registered: it is in the
\* registry; user: its associated_user_id, empty until the client identifies
\* itself; removals: how many times it was taken out of the registry
no_connection ==
  [socket |-> "unused", registered |-> FALSE, user |-> {}, removals |-> 0]

\* the last POST /api/notifications: its body, and whether the publisher got
\* an error
BrokerIdle == [op |-> "none", request |-> <<>>, error |-> FALSE]

\* {event: "new_notification", notification}
Frame(notification) ==
  [event |-> "new_notification", notification |-> notification]

\* a removal that counts a connection already removed again
Removed_again(connection) ==
  [connection EXCEPT !.registered = FALSE, !.removals = @ + 1]

\* the registry entry taken out; nothing to do when it is out already
Removed(connection) ==
  IF connection.registered
  THEN [connection EXCEPT !.registered = FALSE, !.removals = @ + 1]
  ELSE connection

\* the registered connections a notification is sent to: those of its user,
\* all of them for a broadcast, and those that never identified themselves
\* (the socket of the WebSocket test sends nothing after it opens and is
\* expected to receive the notification posted for user 1)
Recipients(notification) ==
  {c \in Conns : /\ connections[c].registered
                 /\ \/ notification.user_id = {}
                    \/ notification.user_id = connections[c].user
                    \/ connections[c].user = {}}

\* a frame put in front of the frames sent before
Deliver_first(inbox, frame) == <<frame>> \o inbox

\* a frame sent on an open socket arrives after the frames sent before
Deliver(inbox, frame) == Append(inbox, frame)

\* a client connects: the next connection id, registered with no user yet
ws_connect(c) ==
  /\ connections[c].socket = "unused"
  /\ \A d \in 1..(c - 1) : connections[d].socket # "unused"
  /\ connections' = [connections EXCEPT ![c].socket = "open",
                                        ![c].registered = TRUE]
  /\ UNCHANGED <<inboxes, published, broker_last>>
  /\ UNCHANGED <<users, sessions, now, challenges, http, registrations>>
  /\ UNCHANGED cvars

\* the client identifies itself: the associated user is set once
ws_identify(c, u) ==
  /\ connections[c].socket = "open"
  /\ connections[c].registered
  /\ connections[c].user = {}
  /\ connections' = [connections EXCEPT ![c].user = {u}]
  /\ UNCHANGED <<inboxes, published, broker_last>>
  /\ UNCHANGED <<users, sessions, now, challenges, http, registrations>>
  /\ UNCHANGED cvars

\* a socket closes: the client closes it, or the network fails
socket_close(c) ==
  /\ connections[c].socket = "open"
  /\ connections' = [connections EXCEPT ![c].socket = "closed"]
  /\ UNCHANGED <<inboxes, published, broker_last>>
  /\ UNCHANGED <<users, sessions, now, challenges, http, registrations>>
  /\ UNCHANGED cvars

\* the server shuts down: every open socket closes
shutdown ==
  /\ \E c \in Conns : connections[c].socket = "open"
  /\ connections' =
       [c \in Conns |->
          IF connections[c].socket = "open"
          THEN [connections[c] EXCEPT !.socket = "closed"]
          ELSE connections[c]]
  /\ UNCHANGED <<inboxes, published, broker_last>>
  /\ UNCHANGED <<users, sessions, now, challenges, http, registrations>>
  /\ UNCHANGED cvars

\* the broker handles a disconnect event of a closed socket ('close',
\* 'error'): a socket can raise several, at any time after it closed
on_disconnect(c) ==
  /\ connections[c].socket = "closed"
  /\ connections' = [connections EXCEPT ![c] = Removed(connections[c])]
  /\ UNCHANGED <<inboxes, published, broker_last>>
  /\ UNCHANGED <<users, sessions, now, challenges, http, registrations>>
  /\ UNCHANGED cvars

\* POST /api/notifications {user_id, message} and the broker's publish: the
\* frame is sent to each recipient; a send on a closed socket fails, which is
\* caught and takes the connection out of the registry
publish(user_id, message) ==
  /\ Len(published) < MaxNotifications
  /\ LET notification == [id |-> Len(published) + 1, user_id |-> user_id,
                          message |-> message]
         to == Recipients(notification)
         live == {c \in to : connections[c].socket = "open"}
     IN /\ inboxes' = [c \in Conns |->
                         IF c \in live
                         THEN Deliver(inboxes[c], Frame(notification))
                         ELSE inboxes[c]]
        /\ connections' = [c \in Conns |->
                             IF c \in to \ live THEN Removed(connections[c])
                             ELSE connections[c]]
        /\ published' = Append(published, notification)
  /\ broker_last' = [BrokerIdle EXCEPT !.op = "publish",
                       !.request = [user_id |-> user_id, message |-> message]]
  /\ UNCHANGED <<users, sessions, now, challenges, http, registrations>>
  /\ UNCHANGED cvars

\* ====================================================== specifications
Init ==
  /\ auth_state = initial_auth_state
  /\ storage = <<>>
  /\ calls = [c \in Slots |-> idle]
  /\ startup_checked = FALSE
  /\ last = NoResult
  /\ called = FALSE
  /\ app = unmounted
  /\ users = <<>>
  /\ sessions = {}
  /\ now = 0
  /\ challenges = <<>>
  /\ http = NoExchange
  /\ registrations = [r \in Registers |-> unregistered]
  /\ connections = [c \in Conns |-> no_connection]
  /\ inboxes = [c \in Conns |-> <<>>]
  /\ published = <<>>
  /\ broker_last = BrokerIdle

Next ==
  \/ \E c \in Slots : login_begin(c)
  \/ \E c \in Slots : login_resolve(c)
  \/ \E c \in Slots : login_reject(c)
  \/ logout
  \/ check_auth_return
  \/ \E c \in Slots : check_auth_begin(c)
  \/ \E c \in Slots : check_auth_resolve(c)
  \/ \E c \in Slots : check_auth_reject(c)
  \/ clear_error
  \/ restart

\* the client session store
Spec == Init /\ [][Next]_vars

NextServer ==
  \/ \E e \in Emails, a \in BOOLEAN : insert_user(e, Str("password123"), a)
  \/ \E e \in Emails, p \in Passwords : api_login(e, p)
  \/ \E a \in Authorizations : api_create_challenge(a)
  \/ tick

\* the completion of every pending request is weakly fair: a request that
\* stays pending is eventually answered or fails
Fairness ==
  \A c \in Slots :
    /\ WF_vars(login_resolve(c) \/ login_reject(c))
    /\ WF_vars(check_auth_resolve(c) \/ check_auth_reject(c))

\* the client session store when every request eventually returns
SpecLive == Init /\ [][Next]_vars /\ Fairness

NextApp ==
  \/ App_mount
  \/ Next

\* the client session store with the App component
SpecApp == Init /\ [][NextApp]_vars

NextRegister ==
  \/ \E r \in Registers, e \in Emails : register_check(r, e)
  \/ \E r \in Registers : register_insert(r)
  \/ \E e \in Emails : insert_user(e, Str("password123"), FALSE)

\* the backend's registration
SpecRegister == Init /\ [][NextRegister]_vars

NextBroker ==
  \/ \E c \in Conns : ws_connect(c)
  \/ \E c \in Conns, u \in BrokerUsers : ws_identify(c, u)
  \/ \E c \in Conns : socket_close(c)
  \/ shutdown
  \/ \E c \in Conns : on_disconnect(c)
  \/ \E t \in Targets, m \in Messages : publish(t, m)

\* the backend's notification broker
SpecBroker == Init /\ [][NextBroker]_vars

\* the backend
SpecServer == Init /\ [][NextServer]_vars

\* ================================================================ claims
is_authenticated == auth_state.authentication_status.is_authenticated
is_loading == auth_state.authentication_status.is_loading
LoginPending == \E c \in Slots : calls[c].pc = "login"

\* C1: in every reachable state of the store, is_authenticated is true if and
\* only if current_user and auth_token are both non-null.
C1_AuthenticatedIffUserAndToken ==
  is_authenticated <=>
    (~IsNullish(auth_state.current_user) /\ ~IsNullish(auth_state.auth_token))

\* the sessions that make a bearer header valid now
LiveSessions(authorization) ==
  {x \in sessions : /\ authorization = Bearer(x.token)
                    /\ now < x.expires_at}

\* C2: POST /api/challenges answers 401 without a live token, 403 with the live
\* token of a user who is not an administrator and 201 with an id with the
\* live token of an administrator, and a challenges row is added only in the
\* last case.
C2_ChallengeGuard ==
  http.route = "POST /api/challenges" =>
    LET live == LiveSessions(http.authorization)
        admin == \E x \in live : users[x.user_id].is_admin
    IN /\ (live = {} => http.status = 401)
       /\ (live # {} /\ ~admin => http.status = 403)
       /\ (live # {} /\ admin =>
             http.status = 201 /\ DOMAIN http.body = {"id"})
       /\ (Len(challenges) # http.rows_before <=> (live # {} /\ admin))
       /\ Len(challenges) \in {http.rows_before, http.rows_before + 1}

\* C2 witness: a user who is not an administrator was refused with 403 while
\* the table already held a challenge.
C2_Witness ==
  /\ http.route = "POST /api/challenges"
  /\ http.status = 403
  /\ Len(challenges) > 0

\* C3: a check_auth call that read a token from the store and whose verify
\* request succeeds leaves the store authenticated with the returned user and
\* that token; one whose verify request fails leaves it unauthenticated with
\* current_user and auth_token null; either way it sent one verify request.
C3_CheckAuthWithToken ==
  /\ last.op = "check_auth_resolve" =>
       /\ ~IsNullish(last.token)
       /\ auth_state.current_user = last.body.user
       /\ auth_state.auth_token = last.token
       /\ is_authenticated /\ ~is_loading
       /\ last.requests = 1
  /\ last.op = "check_auth_reject" =>
       /\ ~IsNullish(last.token)
       /\ auth_state.current_user = NULL
       /\ auth_state.auth_token = NULL
       /\ ~is_authenticated /\ ~is_loading
       /\ last.requests = 1
  /\ \A c \in Slots : calls[c].requests <= 1

\* C3 witness: a verify request has just failed.
C3_Witness ==
  /\ last.op = "check_auth_reject"
  /\ last.token \in Tokens

\* C4: after a login whose request is answered 200 with {user_id, auth_token}
\* the store is authenticated, not loading, with current_user and auth_token
\* non-null and error_message null.
C4_LoginSuccessAuthenticates ==
  (last.op = "login_resolve" /\ DOMAIN last.body = {"user_id", "auth_token"}) =>
    /\ is_authenticated /\ ~is_loading
    /\ ~IsNullish(auth_state.current_user)
    /\ ~IsNullish(auth_state.auth_token)
    /\ auth_state.error_message = NULL

\* C5: after a login whose request fails the store is not authenticated, not
\* loading, holds a non-null error_message, and the call rejects with an error
\* carrying that message.
C5_LoginFailure ==
  last.op = "login_reject" =>
    /\ ~is_authenticated /\ ~is_loading
    /\ ~Falsy(auth_state.error_message)
    /\ last.thrown = auth_state.error_message

\* C5 witness: a login has just failed in a store that held a user and a token.
C5_Witness ==
  /\ last.op = "login_reject"
  /\ auth_state.current_user \in Users
  /\ auth_state.auth_token \in Tokens

\* C6: logout leaves current_user null, auth_token null, is_authenticated false
\* and is_loading false, whatever the state it is called in.
C6_Logout ==
  last.op = "logout" =>
    /\ auth_state.current_user = NULL
    /\ auth_state.auth_token = NULL
    /\ ~is_authenticated /\ ~is_loading

\* C6 witness: logout has just run while a login and a check_auth were pending.
C6_Witness ==
  /\ last.op = "logout"
  /\ \E c \in Slots : calls[c].pc = "login"
  /\ \E c \in Slots : calls[c].pc = "check_auth"

\* C7: check_auth with no token in the store returns at once, leaving the store
\* unauthenticated and not loading, and a verify request is only ever sent
\* with a token.
C7_CheckAuthWithoutToken ==
  /\ last.op = "check_auth_return" =>
       /\ Falsy(last.token)
       /\ ~is_authenticated /\ ~is_loading
       /\ last.requests = 0
  /\ \A c \in Slots : calls[c].pc = "check_auth" => ~Falsy(calls[c].token)

\* C7 witness: check_auth has just returned in the store as it is created,
\* with nothing in storage before.
C7_Witness ==
  /\ last.op = "check_auth_return"
  /\ auth_state = [initial_auth_state EXCEPT
                     !.authentication_status.is_loading = FALSE]
  /\ \A c \in Slots : calls[c] = idle

\* C8: is_loading is true only while a login call is pending or before the
\* first check_auth since the store was created has completed.
C8_LoadingOnlyWhilePending ==
  is_loading => (LoginPending \/ ~startup_checked)

\* C8 witness: the store is loading after the startup check_auth completed.
C8_Witness ==
  /\ is_loading
  /\ startup_checked
  /\ LoginPending

\* C9: the snapshot in storage always has is_loading false and error_message
\* null, and a store created from it does not start loading.
C9_SnapshotNeverLoading ==
  /\ storage # <<>> =>
       /\ storage[1].authentication_status.is_loading = FALSE
       /\ storage[1].error_message = NULL
  /\ (last.op = "restart" /\ storage # <<>>) => ~is_loading

\* C9 witness: a snapshot is in storage while the store is loading.
C9_Witness ==
  /\ storage # <<>>
  /\ is_loading
  /\ LoginPending

\* C10: whenever a check_auth or login call ends because its request failed,
\* the store is left not authenticated with a non-null error_message.
C10_FailureLeavesMessage ==
  last.op \in {"check_auth_reject", "login_reject"} =>
    /\ ~is_authenticated
    /\ ~Falsy(auth_state.error_message)

\* the four fields of the auth state a call decides
View(state) ==
  [current_user |-> state.current_user,
   auth_token |-> state.auth_token,
   is_authenticated |-> state.authentication_status.is_authenticated,
   error_message |-> state.error_message]

\* what the call that completed as l writes over the state prev
Written(l, prev) ==
  CASE l.op = "login_resolve" ->
         [current_user |-> Get(l.body, "user"), auth_token |-> Get(l.body, "token"),
          is_authenticated |-> TRUE, error_message |-> NULL]
    [] l.op = "login_reject" ->
         [current_user |-> prev.current_user, auth_token |-> prev.auth_token,
          is_authenticated |-> FALSE, error_message |-> l.thrown]
    [] l.op = "check_auth_resolve" ->
         [current_user |-> l.body.user, auth_token |-> l.token,
          is_authenticated |-> TRUE, error_message |-> NULL]
    [] l.op = "check_auth_reject" ->
         [current_user |-> NULL, auth_token |-> NULL,
          is_authenticated |-> FALSE, error_message |-> NULL]

Completions ==
  {"login_resolve", "login_reject", "check_auth_resolve", "check_auth_reject"}

AnyPending == \E c \in Slots : calls[c].pc # "idle"

\* C11: when the last of several overlapping login / check_auth calls
\* completes, the auth state is the one that call writes, whatever the calls
\* that completed before it wrote and whatever the order they started in.
C11_LastWriteWins ==
  [][(/\ last'.op \in Completions
      /\ last'.overlapped
      /\ calls[last'.call].pc # "idle"
      /\ \A c \in Slots : calls'[c].pc = "idle")
     => View(auth_state') = Written(last', auth_state)]_vars

\* C11 witness: of two overlapping logins the first succeeded and the second,
\* completing last, failed.
C11_Witness ==
  /\ last.op = "login_reject"
  /\ last.overlapped
  /\ ~AnyPending
  /\ auth_state.current_user \in Users

\* C17: the completion of a login or check_auth call that was pending when
\* logout ran never makes the store authenticated again.
C17_LogoutSticks ==
  (last.op \in Completions /\ last.stale) =>
    /\ ~is_authenticated
    /\ IsNullish(auth_state.auth_token)

\* C18: once login, logout or check_auth has been called, is_loading is false
\* whenever no call is pending, and a loading store eventually stops loading.
C18_LoadingEnds ==
  /\ []((called /\ ~AnyPending) => ~is_loading)
  /\ ((called /\ is_loading) ~> ~is_loading)

\* C18 witness: two overlapping calls have both completed and the store is
\* not loading.
C18_Witness ==
  /\ called
  /\ ~AnyPending
  /\ last.op \in Completions
  /\ last.overlapped
  /\ ~is_loading

\* C19: once App is mounted it has invoked the store's check_auth, which has
\* completed or is pending.
C19_MountInvokesCheckAuth ==
  app.pc # "unmounted" =>
    /\ app.pc = "mounted"
    /\ called
    /\ startup_checked \/ \E c \in Slots : calls[c].pc = "check_auth"

\* C20: ProtectedRoute renders the spinner while the store is loading, the
\* redirect to /login when it is neither loading nor authenticated, and its
\* children exactly when it is authenticated and not loading.
C20_ProtectedRouteFollowsStore ==
  /\ is_loading => ProtectedRoute = "LoadingSpinner"
  /\ (~is_loading /\ ~is_authenticated) => ProtectedRoute = "Navigate to /login"
  /\ ProtectedRoute = "children" <=> (is_authenticated /\ ~is_loading)

\* the register requests made for an e-mail address, and those answered
RegistersOf(email) == {r \in Registers : registrations[r].email = email}
AnsweredOf(email) == {r \in RegistersOf(email) : registrations[r].pc = "done"}

\* C12: of the register requests for one e-mail address at most one is
\* answered 201 and every other one 400, and once they are all answered
\* exactly one users row has that e-mail address.
C12_RegisterOncePerEmail ==
  \A e \in Emails :
    /\ Cardinality(RowsOf(e)) <= 1
    /\ Cardinality({r \in AnsweredOf(e) : registrations[r].status = 201}) <= 1
    /\ \A r \in AnsweredOf(e) : registrations[r].status \in {201, 400}
    /\ (AnsweredOf(e) # {} /\ AnsweredOf(e) = RegistersOf(e)) =>
         Cardinality(RowsOf(e)) = 1

\* C12 witness: two register requests for one e-mail address both passed the
\* uniqueness check before either inserted; one got 201 and the other 400.
C12_Witness ==
  \E e \in Emails :
    /\ Cardinality(AnsweredOf(e)) >= 2
    /\ \E r \in AnsweredOf(e) : registrations[r].status = 201
    /\ \E r \in AnsweredOf(e) : registrations[r].status = 400
    /\ Len(users) = 1

\* C16: a login with an unknown e-mail address and a login with a wrong
\* password are both answered 401 InvalidCredentials, with no token issued
\* and no users row changed.
C16_InvalidCredentials ==
  [][http'.route = "POST /api/users/login" =>
       LET email == http'.credentials[1]
           password == http'.credentials[2]
           known == \E i \in 1..Len(users) :
                      users[i].email = email /\ users[i].password = password
       IN /\ users' = users
          /\ ~known =>
               /\ http'.status = 401
               /\ http'.body = [message |-> Str("InvalidCredentials")]
               /\ sessions' = sessions]_vars

\* C16 witness: a login with a wrong password for an existing e-mail address
\* was answered 401.
C16_Witness ==
  /\ http.route = "POST /api/users/login"
  /\ http.status = 401
  /\ RowsOf(http.credentials[1]) # {}

\* the notification a publish step has just published
Newest == published[Len(published)]
\* connection c is live and is a connection of the notification's user
LiveFor(c, notification) ==
  /\ connections[c].socket = "open"
  /\ connections[c].registered
  /\ connections[c].user = notification.user_id
\* the ids of the notifications in an inbox, in the order they arrived
IdsOf(inbox) == [i \in 1..Len(inbox) |-> inbox[i].notification.id]

\* C13: publishing a notification for a user changes the inbox of no
\* connection but the live ones of that user, nothing is delivered outside a
\* publish call, and the publisher gets no error.
C13_OnlyTheUsersConnections ==
  [][/\ (published' # published /\ Newest'.user_id # {}) =>
          \A c \in Conns :
            ~LiveFor(c, Newest') => inboxes'[c] = inboxes[c]
     /\ published' = published => inboxes' = inboxes
     /\ ~broker_last'.error]_vars

\* C14: a posted notification reaches every live connection of its user as
\* one new_notification frame carrying the posted message, after the frames of
\* the notifications published before it, and no frame arrives twice.
C14_DeliveredOnceInOrder ==
  [][/\ published' # published =>
          \A c \in Conns :
            LiveFor(c, Newest') =>
              inboxes'[c] =
                Append(inboxes[c],
                       [event |-> "new_notification",
                        notification |->
                          [id |-> Len(published'),
                           user_id |-> broker_last'.request.user_id,
                           message |-> broker_last'.request.message]])
     /\ \A c \in Conns :
          \A i, j \in 1..Len(inboxes'[c]) :
            i < j => IdsOf(inboxes'[c])[i] < IdsOf(inboxes'[c])[j]]_vars

\* C14 witness: a live connection of user 1 received two notifications with
\* different messages, in publish order.
C14_Witness ==
  \E c \in Conns :
    /\ connections[c].socket = "open"
    /\ connections[c].user = {1}
    /\ Len(inboxes[c]) = 2
    /\ IdsOf(inboxes[c]) = <<1, 2>>
    /\ inboxes[c][1].notification.message # inboxes[c][2].notification.message

\* C15: a connection leaves the registry at most once and nothing changes
\* for it afterwards; a publish that meets a connection whose socket has
\* closed takes it out of the registry, gives the publisher no error and still
\* delivers to the live connections of the user.
C15_RemovedOnce ==
  [][/\ \A c \in Conns : connections'[c].removals <= 1
     /\ \A c \in Conns :
          (connections[c].socket = "closed" /\ ~connections[c].registered) =>
            connections'[c] = connections[c]
     /\ published' # published =>
          /\ ~broker_last'.error
          /\ \A c \in Conns :
               (/\ connections[c].socket = "closed"
                /\ connections[c].registered
                /\ connections[c].user = Newest'.user_id) =>
                 /\ ~connections'[c].registered
                 /\ connections'[c].removals = 1
                 /\ inboxes'[c] = inboxes[c]
          /\ \A c \in Conns :
               LiveFor(c, Newest') =>
                 /\ Len(inboxes'[c]) = Len(inboxes[c]) + 1
                 /\ inboxes'[c][Len(inboxes'[c])].notification = Newest']_vars

\* C15 witness: of two connections of one user the closed one is out of the
\* registry, removed once, and the live one holds the newest notification,
\* which the closed one does not.
C15_Witness ==
  \E c, d \in Conns :
    /\ connections[c].socket = "closed"
    /\ ~connections[c].registered
    /\ connections[c].removals = 1
    /\ connections[c].user = {1}
    /\ connections[d].socket = "open"
    /\ connections[d].user = connections[c].user
    /\ published # <<>>
    /\ inboxes[d] # <<>>
    /\ inboxes[d][Len(inboxes[d])].notification = Newest
    /\ \A i \in 1..Len(inboxes[c]) : inboxes[c][i].notification # Newest

TypeOK ==
  /\ auth_state.current_user \in Users \cup {NULL, UNDEFINED}
  /\ auth_state.auth_token \in Tokens \cup {NULL, UNDEFINED}
  /\ auth_state.authentication_status.is_authenticated \in BOOLEAN
  /\ auth_state.authentication_status.is_loading \in BOOLEAN
  /\ Len(storage) <= 1
  /\ \A c \in Slots : calls[c].pc \in {"idle", "login", "check_auth"}
====
